---- MODULE Spec2Model ----
(***************************************************************************)
(* IPOG t-way covering array generator and its checker                     *)
(* (src/testflows/_core/covering_array.py).                                *)
(*                                                                         *)
(* Representation.  Python lists are sequences; a parameter or value       *)
(* index k of the code (0-based) is the element k+1 of the sequence.       *)
(* A bitmap, an arbitrary-precision integer in the code, is the set of the *)
(* positions of its 1 bits: (1 << w) - 1 is 0..w-1, b & ~(1 << k) is       *)
(* b \ {k}, b.bit_count() is Cardinality(b), b == 0 is b = {}.             *)
(* The don't-care class X is the integer -1, outside every domain.         *)
(***************************************************************************)
EXTENDS Integers, Sequences, FiniteSets, TLC

VARIABLES parameters, strength, hashseed, t, parameters_set, parameters_map,
          tests, i, pi, tau, vc, vb, ca, pc, chk, ranked

vars == <<parameters, strength, hashseed, t, parameters_set, parameters_map,
          tests, i, pi, tau, vc, vb, ca, pc, chk, ranked>>

(* ---------------- bounds of the explored inputs ---------------- *)
MaxParams == 3
MaxDomain == 2
MaxSeed == 1
CheckMaxParams == 2
MaxArrayRows == 2
MaxUniverse == 3

(* ---------------- generic list helpers ---------------- *)
X == -1

Min(a, b) == IF a < b THEN a ELSE b

Max(a, b) == IF a > b THEN a ELSE b

Range(n) == [k \in 1..n |-> k - 1]

SeqSet(s) == {s[k] : k \in 1..Len(s)}

RECURSIVE Prod(_)
Prod(s) == IF s = <<>> THEN 1 ELSE Head(s) * Prod(Tail(s))

RECURSIVE Concat(_)
Concat(ss) == IF ss = <<>> THEN <<>> ELSE Head(ss) \o Concat(Tail(ss))

RECURSIVE comb(_, _)
comb(n, k) ==
    IF k = 0 THEN 1
    ELSE IF n = 0 THEN 0
    ELSE comb(n - 1, k - 1) + comb(n - 1, k)

\* list[:k] for k >= 0
Prefix(s, k) == SubSeq(s, 1, Min(k, Len(s)))

\* list[k:] for k >= 0
Suffix(s, k) == SubSeq(s, k + 1, Len(s))

\* itertools.combinations(items[lo:], r), in the order it yields them
RECURSIVE combinationsFrom(_, _, _)
combinationsFrom(items, lo, r) ==
    IF r = 0 THEN << <<>> >>
    ELSE Concat([f \in 1..(Len(items) - lo) |->
            LET rest == combinationsFrom(items, lo + f, r - 1)
            IN  [b \in 1..Len(rest) |-> <<items[lo + f]>> \o rest[b]]])

combinations(items, r) == combinationsFrom(items, 0, r)

\* itertools.product(*lists), in the order it yields them
RECURSIVE product(_)
product(lists) ==
    IF lists = <<>> THEN << <<>> >>
    ELSE LET rest == product(Tail(lists))
             h == Head(lists)
         IN  Concat([a \in 1..Len(h) |->
                 [b \in 1..Len(rest) |-> <<h[a]>> \o rest[b]]])

RECURSIVE SortedSeq(_)
SortedSeq(S) ==
    IF S = {} THEN <<>>
    ELSE LET m == CHOOSE x \in S : \A y \in S : x <= y
         IN  <<m>> \o SortedSeq(S \ {m})

\* list(set(v)): the distinct values, in an order fixed by the process's
\* hashing (the same set always iterates in the same order within a run)
ListOfSet(v, seed) ==
    LET s == SortedSeq(SeqSet(v))
        n == Len(s)
    IN  [k \in 1..n |-> s[((k - 1 + seed) % n) + 1]]

(* ---------------- prepare ---------------- *)
parameter_names == <<"a", "b", "c", "d", "e">>

prepare_map(params, seed) == [k \in 1..Len(params) |-> ListOfSet(params[k], seed)]

prepare_set(params, seed) ==
    [k \in 1..Len(params) |-> Range(Len(prepare_map(params, seed)[k]))]

(* ---------------- index arithmetic ---------------- *)
\* the binomial's lower argument ignores the position (t - i becomes t)
RECURSIVE combination_index_loop_flat(_, _, _, _, _)
combination_index_loop_flat(t1, N, combination, j, index) ==
    IF j > Len(combination) - 1 THEN index
    ELSE combination_index_loop_flat(t1, N, combination, j + 1,
            index - comb(N - (combination[j] + 1), t1))

RECURSIVE combination_index_loop(_, _, _, _, _)
combination_index_loop(t1, N, combination, j, index) ==
    IF j > Len(combination) - 1 THEN index
    ELSE combination_index_loop(t1, N, combination, j + 1,
            index - comb(N - (combination[j] + 1), t1 - (j - 1)))

\* the parameter index is not shifted by one (p += 1 is missing)
combination_index_no_shift(tt, N, combination) ==
    LET shifted == [k \in 1..Len(combination) |-> combination[k] - 1]
    IN  combination_index_loop(tt - 1, N, shifted, 1, comb(N, tt - 1) - 1)

combination_index(tt, N, combination) ==
    combination_index_loop(tt - 1, N, combination, 1, comb(N, tt - 1) - 1)

value_lengths(combination, ps) ==
    [k \in 1..Len(combination) |-> Len(ps[combination[k] + 1])]

RECURSIVE combination_values_bitmap_index_loop(_, _, _, _)
combination_values_bitmap_index_loop(lengths, values, k, index) ==
    IF k > Len(values) THEN index
    ELSE combination_values_bitmap_index_loop(lengths, values, k + 1,
            index + Prod(Suffix(lengths, k)) * values[k])

combination_values_bitmap_index(combination, values, ps) ==
    combination_values_bitmap_index_loop(value_lengths(combination, ps), values, 1, 0)

RECURSIVE bitmap_index_combination_values_loop(_, _, _, _)
bitmap_index_combination_values_loop(lengths, k, c, value) ==
    IF k > Len(lengths) THEN value
    ELSE LET j == Prod(Suffix(lengths, k))
             q == c \div j
         IN  bitmap_index_combination_values_loop(lengths, k + 1, c - q * j,
                 [value EXCEPT ![k] = q])

bitmap_index_combination_values(index, combination, ps) ==
    bitmap_index_combination_values_loop(value_lengths(combination, ps), 1, index,
        [k \in 1..Len(combination) |-> 0])

combination_values(test, combination) ==
    [k \in 1..Len(combination) |-> test[combination[k] + 1]]

set_combination_values(test, values, combination) ==
    [p \in 1..Len(test) |->
        IF \E k \in 1..Len(combination) : combination[k] + 1 = p
        THEN values[CHOOSE k \in 1..Len(combination) : combination[k] + 1 = p]
        ELSE test[p]]

(* ---------------- the uncovered store ---------------- *)
construct_pi(ii, tt, ps) ==
    LET cs == combinations(Range(ii), tt - 1)
        t_way_combinations == [k \in 1..Len(cs) |-> Append(cs[k], ii)]
    IN  [combinations |-> t_way_combinations,
         bitmap |-> [k \in 1..Len(cs) |->
                        0..(Prod(value_lengths(t_way_combinations[k], ps)) - 1)]]

(* ---------------- coverage evaluator ---------------- *)
\* the bit is toggled (bitmap ^ (1 << bitmap_index)) instead of cleared
calculate_coverage_step_toggle(tt, ii, test, p, ps, combination, acc) ==
    LET index == combination_index(tt, ii, combination)
        bitmap == p.bitmap[index + 1]
        current_coverage == Cardinality(bitmap)
        values == combination_values(test, combination)
        bitmap_index == combination_values_bitmap_index(combination, values, ps)
        toggled == IF bitmap_index \in bitmap THEN bitmap \ {bitmap_index}
                   ELSE bitmap \cup {bitmap_index}
        new_coverage == Cardinality(toggled)
    IN  [coverage |-> acc.coverage + (current_coverage - new_coverage),
         current_coverage |-> current_coverage,
         new_bitmap |-> [acc.new_bitmap EXCEPT ![index + 1] = toggled]]

\* one iteration of the loop over pi.combinations; acc carries coverage,
\* current_coverage and new_bitmap
calculate_coverage_step(tt, ii, test, p, ps, combination, acc) ==
    LET index == combination_index(tt, ii, combination)
        bitmap == p.bitmap[index + 1]
        current_coverage == Cardinality(bitmap)
        values == combination_values(test, combination)
        bitmap_index == combination_values_bitmap_index(combination, values, ps)
        cleared == bitmap \ {bitmap_index}
        new_coverage == Cardinality(cleared)
    IN  [coverage |-> acc.coverage + (current_coverage - new_coverage),
         current_coverage |-> current_coverage,
         new_bitmap |-> [acc.new_bitmap EXCEPT ![index + 1] = cleared]]

RECURSIVE calculate_coverage_loop(_, _, _, _, _, _, _)
calculate_coverage_loop(tt, ii, test, p, ps, k, acc) ==
    IF k > Len(p.combinations) THEN acc
    ELSE calculate_coverage_loop(tt, ii, test, p, ps, k + 1,
            calculate_coverage_step(tt, ii, test, p, ps, p.combinations[k], acc))

calculate_coverage_result(acc) ==
    [coverage |-> acc.coverage - acc.current_coverage, bitmap |-> acc.new_bitmap]

calculate_coverage(tt, ii, test, p, ps) ==
    calculate_coverage_result(
        calculate_coverage_loop(tt, ii, test, p, ps, 1,
            [coverage |-> 0, current_coverage |-> 0, new_bitmap |-> p.bitmap]))

(* ---------------- horizontal extension ---------------- *)
\* the comparison is inverted: the candidate of least coverage is kept
replaces_best_least(coverage, best) == best = <<>> \/ coverage <= best[1].coverage

\* a strict comparison keeps the first maximal candidate
replaces_best_strict(coverage, best) == best = <<>> \/ coverage > best[1].coverage

\* best is None (the empty sequence) or <<BestTest>>
replaces_best(coverage, best) == best = <<>> \/ coverage >= best[1].coverage

RECURSIVE horizontal_best(_, _, _, _, _, _, _)
horizontal_best(tt, ii, test, p, ps, k, best) ==
    IF k > Len(ps[ii + 1]) THEN best
    ELSE LET new_test == Append(test, ps[ii + 1][k])
             r == calculate_coverage(tt, ii, new_test, p, ps)
         IN  horizontal_best(tt, ii, test, p, ps, k + 1,
                IF replaces_best(r.coverage, best)
                THEN <<[test |-> new_test, coverage |-> r.coverage, bitmap |-> r.bitmap]>>
                ELSE best)

\* the bitmap committed is the one of the last candidate, not of the best
horizontal_row_last_bitmap(tt, ii, ts, p, ps, row) ==
    LET best == horizontal_best(tt, ii, ts[row + 1], p, ps, 1, <<>>)[1]
        last == Append(ts[row + 1], ps[ii + 1][Len(ps[ii + 1])])
    IN  [tests |-> [ts EXCEPT ![row + 1] = best.test],
         pi |-> [combinations |-> p.combinations,
                 bitmap |-> calculate_coverage(tt, ii, last, p, ps).bitmap]]

\* the body of the loop over tests, for row number row (0-based)
horizontal_row(tt, ii, ts, p, ps, row) ==
    LET best == horizontal_best(tt, ii, ts[row + 1], p, ps, 1, <<>>)[1]
    IN  [tests |-> [ts EXCEPT ![row + 1] = best.test],
         pi |-> [combinations |-> p.combinations, bitmap |-> best.bitmap]]

RECURSIVE horizontal_loop(_, _, _, _, _, _)
horizontal_loop(tt, ii, ts, p, ps, row) ==
    IF row >= Len(ts) THEN [tests |-> ts, pi |-> p]
    ELSE LET r == horizontal_row(tt, ii, ts, p, ps, row)
         IN  horizontal_loop(tt, ii, r.tests, r.pi, ps, row + 1)

horizontal_extension(tt, ii, ts, p, ps) == horizontal_loop(tt, ii, ts, p, ps, 0)

(* ---------------- vertical extension ---------------- *)
\* the flag is overwritten at every position, so only the last one counts
change_existing_last_only(values, test_values) ==
    values[Len(values)] = test_values[Len(values)] \/ test_values[Len(values)] = X

\* every test counts as changeable
change_existing_always(values, test_values) == TRUE

change_existing(values, test_values) ==
    \A k \in 1..Len(values) : values[k] = test_values[k] \/ test_values[k] = X

\* the scan of the tests for one uncovered value tuple, from row r on
RECURSIVE vertical_scan(_, _, _, _, _)
vertical_scan(ts, values, combination, ii, r) ==
    IF r > Len(ts)
    THEN Append(ts, set_combination_values([k \in 1..(ii + 1) |-> X], values, combination))
    ELSE LET test_values == combination_values(ts[r], combination)
         IN  IF values = test_values THEN ts
             ELSE IF change_existing(values, test_values)
             THEN [ts EXCEPT ![r] = set_combination_values(ts[r], values, combination)]
             ELSE vertical_scan(ts, values, combination, ii, r + 1)

\* one uncovered value tuple: bit bitmap_index of the combination number c
vertical_tuple(ii, ts, p, ps, c, bitmap_index) ==
    LET combination == p.combinations[c]
        values == bitmap_index_combination_values(bitmap_index, combination, ps)
    IN  vertical_scan(ts, values, combination, ii, 1)

\* the set bits of the combination number c that lie above position b
bits_above(tt, ii, p, c, b) ==
    {x \in p.bitmap[combination_index(tt, ii, p.combinations[c]) + 1] : x > b}

\* the next (combination number, bit) the two loops visit after (c, b);
\* <<>> when both loops are over
next_tuple(tt, ii, p, c, b) ==
    LET later == {k \in 1..Len(p.combinations) :
                     \/ k > c /\ bits_above(tt, ii, p, k, -1) /= {}
                     \/ k = c /\ bits_above(tt, ii, p, k, b) /= {}}
    IN  IF later = {} THEN <<>>
        ELSE LET k == CHOOSE x \in later : \A y \in later : x <= y
                 bs == bits_above(tt, ii, p, k, IF k = c THEN b ELSE -1)
             IN  <<k, CHOOSE x \in bs : \A y \in bs : x <= y>>

\* only the new column is resolved
resolve_X_last_column(ts, ps) ==
    [r \in 1..Len(ts) |->
        [k \in 1..Len(ts[r]) |->
            IF ts[r][k] = X /\ k = Len(ts[r]) THEN ps[k][1] ELSE ts[r][k]]]

\* replace all X with the first value for a given parameter
resolve_X(ts, ps) ==
    [r \in 1..Len(ts) |->
        [k \in 1..Len(ts[r]) |-> IF ts[r][k] = X THEN ps[k][1] ELSE ts[r][k]]]

RECURSIVE vertical_loop(_, _, _, _, _, _, _)
vertical_loop(tt, ii, ts, p, ps, c, b) ==
    LET n == next_tuple(tt, ii, p, c, b)
    IN  IF n = <<>> THEN resolve_X(ts, ps)
        ELSE vertical_loop(tt, ii, vertical_tuple(ii, ts, p, ps, n[1], n[2]), p, ps, n[1], n[2])

vertical_extension(tt, ii, ts, p, ps) == vertical_loop(tt, ii, ts, p, ps, 1, -1)

(* ---------------- driver ---------------- *)
\* a strength out of range falls back to the full strength
clamp_to_full(s, n) == IF 1 <= s /\ s <= n THEN s ELSE n

\* t-strength is > 1 and <= number of parameters
clamp(s, n) == Max(1, Min(s, n))

\* the seed leaves out the t-th parameter
first_tests_short(tt, ps) == product(Prefix(ps, tt - 1))

first_tests(tt, ps) == product(Prefix(ps, tt))

well_indexed(test, pm) ==
    \A k \in 1..Len(test) : test[k] \in 0..(Len(pm[k]) - 1)

convert_test(test, pm) ==
    [n \in {parameter_names[k] : k \in 1..Len(test)} |->
        LET k == CHOOSE x \in 1..Len(test) : parameter_names[x] = n
        IN  pm[k][test[k] + 1]]

\* an empty mapping gives an empty array
convert_tests_nonempty(ts, pm) ==
    IF pm = <<>> THEN <<>> ELSE [r \in 1..Len(ts) |-> convert_test(ts[r], pm)]

convert_tests_to_covering_array(ts, pm) ==
    [r \in 1..Len(ts) |-> convert_test(ts[r], pm)]

RECURSIVE extension_loop(_, _, _, _)
extension_loop(tt, ii, ts, ps) ==
    IF ii >= Len(ps) THEN ts
    ELSE LET h == horizontal_extension(tt, ii, ts, construct_pi(ii, tt, ps), ps)
         IN  extension_loop(tt, ii + 1, vertical_extension(tt, ii, h.tests, h.pi, ps), ps)

covering_array(params, s, seed) ==
    LET tt == clamp(s, Len(params))
        ps == prepare_set(params, seed)
    IN  convert_tests_to_covering_array(
            extension_loop(tt, tt, first_tests(tt, ps), ps),
            prepare_map(params, seed))

(* ---------------- checker ---------------- *)
\* every (combination, values) pair, in the order the two loops of check
\* enumerate them; a combination is a tuple of parameter positions
check_pairs(params, s) ==
    LET cs == combinations([k \in 1..Len(params) |-> k], s)
    IN  Concat([c \in 1..Len(cs) |->
            LET vs == product([k \in 1..Len(cs[c]) |-> params[cs[c][k]]])
            IN  [v \in 1..Len(vs) |-> [combination |-> cs[c], values |-> vs[v]]]])

test_matches(test, pair) ==
    \A k \in 1..Len(pair.combination) :
        test[parameter_names[pair.combination[k]]] = pair.values[k]

\* without the break after a matching test the last test decides
check_covered_last_test(array, pair, r) == test_matches(array[Len(array)], pair)

\* the loop over the tests of the array for one pair, from row r on
RECURSIVE check_covered(_, _, _)
check_covered(array, pair, r) ==
    IF r > Len(array) THEN FALSE
    ELSE IF test_matches(array[r], pair) THEN TRUE
    ELSE check_covered(array, pair, r + 1)

(* ---------------- inputs ---------------- *)
AscList(d) == Range(d)

\* a list that repeats its first value
DupList(d) == <<0>> \o Range(d)

InputLists == {AscList(d) : d \in 1..MaxDomain} \cup {DupList(MaxDomain - 1)}

\* the inputs of the scenarios S2/S3 (four parameters of three values) and a
\* four-parameter input with a one-value domain
Scenarios ==
    { [k \in 1..4 |-> AscList(3)],
      <<AscList(2), AscList(3), AscList(1), AscList(3)>> }

ParameterMappings == UNION {[1..n -> InputLists] : n \in 0..MaxParams} \cup Scenarios

NoPi == [combinations |-> <<>>, bitmap |-> <<>>]

NoCheck == [array |-> <<>>, strength |-> 0, pos |-> 0, result |-> "none", error |-> <<>>]

Init ==
    /\ parameters \in ParameterMappings
    /\ strength \in -1..(Len(parameters) + 1)
    /\ hashseed \in 0..MaxSeed
    /\ t = 0
    /\ parameters_set = <<>>
    /\ parameters_map = <<>>
    /\ tests = <<>>
    /\ i = 0
    /\ pi = NoPi
    /\ tau = 0
    /\ vc = 1
    /\ vb = -1
    /\ ca = <<>>
    /\ pc = "call"
    /\ chk = NoCheck
    /\ ranked = {}

(* ---------------- covering_array, step by step ---------------- *)
\* clamp, prepare and seed the tests; i is the next value of the loop
\* variable of the extension loop
Begin ==
    /\ pc = "call"
    /\ t' = clamp(strength, Len(parameters))
    /\ parameters_set' = prepare_set(parameters, hashseed)
    /\ parameters_map' = prepare_map(parameters, hashseed)
    /\ tests' = first_tests(t', parameters_set')
    /\ i' = t'
    /\ pc' = "loop"
    /\ UNCHANGED <<ranked, parameters, strength, hashseed, pi, tau, vc, vb, ca, chk>>

ConstructPi ==
    /\ pc = "loop"
    /\ i < Len(parameters_set)
    /\ pi' = construct_pi(i, t, parameters_set)
    /\ tau' = 0
    /\ pc' = "horizontal"
    /\ UNCHANGED <<ranked, parameters, strength, hashseed, t, parameters_set, parameters_map,
                   tests, i, vc, vb, ca, chk>>

\* one iteration of the loop over the tests; after the last one
\* horizontal_extension returns and vertical_extension starts
HorizontalRow ==
    /\ pc = "horizontal"
    /\ tau < Len(tests)
    /\ LET r == horizontal_row(t, i, tests, pi, parameters_set, tau)
       IN  /\ tests' = r.tests
           /\ pi' = r.pi
    /\ tau' = tau + 1
    /\ IF tau' < Len(tests)
       THEN pc' = "horizontal" /\ UNCHANGED <<vc, vb>>
       ELSE pc' = "vertical" /\ vc' = 1 /\ vb' = -1
    /\ UNCHANGED <<ranked, parameters, strength, hashseed, t, parameters_set, parameters_map,
                   i, ca, chk>>

\* one uncovered value tuple of vertical_extension
VerticalTuple ==
    /\ pc = "vertical"
    /\ next_tuple(t, i, pi, vc, vb) /= <<>>
    /\ LET n == next_tuple(t, i, pi, vc, vb)
       IN  /\ tests' = vertical_tuple(i, tests, pi, parameters_set, n[1], n[2])
           /\ vc' = n[1]
           /\ vb' = n[2]
    /\ UNCHANGED <<ranked, parameters, strength, hashseed, t, parameters_set, parameters_map,
                   i, pi, tau, ca, pc, chk>>

\* no uncovered tuple is left: the X are replaced, vertical_extension
\* returns and the extension loop moves on
VerticalResolve ==
    /\ pc = "vertical"
    /\ next_tuple(t, i, pi, vc, vb) = <<>>
    /\ tests' = resolve_X(tests, parameters_set)
    /\ i' = i + 1
    /\ pc' = "loop"
    /\ UNCHANGED <<ranked, parameters, strength, hashseed, t, parameters_set, parameters_map,
                   pi, tau, vc, vb, ca, chk>>

\* the extension loop is over; indexing a list with X raises TypeError
Convert ==
    /\ pc = "loop"
    /\ i >= Len(parameters_set)
    /\ IF \A r \in 1..Len(tests) : well_indexed(tests[r], parameters_map)
       THEN /\ ca' = convert_tests_to_covering_array(tests, parameters_map)
            /\ pc' = "done"
       ELSE /\ ca' = ca
            /\ pc' = "raised"
    /\ UNCHANGED <<ranked, parameters, strength, hashseed, t, parameters_set, parameters_map,
                   tests, i, pi, tau, vc, vb, chk>>

(* ---------------- check, step by step ---------------- *)
\* the caller checks the array at the strength it was generated for
CallCheck ==
    /\ pc = "done"
    /\ chk' = [array |-> ca, strength |-> t, pos |-> 0, result |-> "none", error |-> <<>>]
    /\ pc' = "check"
    /\ UNCHANGED <<ranked, parameters, strength, hashseed, t, parameters_set, parameters_map,
                   tests, i, pi, tau, vc, vb, ca>>

\* pos pairs were examined and found covered; examine the next one
CheckStep ==
    /\ pc = "check"
    /\ LET pairs == check_pairs(parameters, chk.strength)
       IN  IF chk.array = <<>>
           THEN chk' = [chk EXCEPT !.result = "ValueError"] /\ pc' = "checked"
           ELSE IF chk.pos >= Len(pairs)
           THEN chk' = [chk EXCEPT !.result = "True"] /\ pc' = "checked"
           ELSE IF check_covered(chk.array, pairs[chk.pos + 1], 1)
           THEN chk' = [chk EXCEPT !.pos = chk.pos + 1] /\ pc' = pc
           ELSE /\ chk' = [chk EXCEPT !.result = "CoveringArrayError",
                                      !.error = <<pairs[chk.pos + 1]>>]
                /\ pc' = "checked"
    /\ UNCHANGED <<ranked, parameters, strength, hashseed, t, parameters_set, parameters_map,
                   tests, i, pi, tau, vc, vb, ca>>

Next ==
    \/ Begin
    \/ ConstructPi
    \/ HorizontalRow
    \/ VerticalTuple
    \/ VerticalResolve
    \/ Convert
    \/ CallCheck
    \/ CheckStep

Spec == Init /\ [][Next]_vars

(* ---------------- check called on arbitrary arrays ---------------- *)
CheckLists == {<<0>>, <<1, 0>>, <<0, 0, 1>>}

CheckMappings == UNION {[1..n -> CheckLists] : n \in 1..CheckMaxParams}

CheckRows(n) == [{parameter_names[k] : k \in 1..n} -> {0, 1}]

CheckArrays(n) == UNION {[1..m -> CheckRows(n)] : m \in 0..MaxArrayRows}

InitCheck ==
    /\ parameters \in CheckMappings
    /\ chk \in {[array |-> a, strength |-> s, pos |-> 0, result |-> "none", error |-> <<>>] :
                  a \in CheckArrays(Len(parameters)), s \in 0..(Len(parameters) + 1)}
    /\ strength = chk.strength
    /\ hashseed = 0
    /\ t = 0
    /\ parameters_set = <<>>
    /\ parameters_map = <<>>
    /\ tests = <<>>
    /\ i = 0
    /\ pi = NoPi
    /\ tau = 0
    /\ vc = 1
    /\ vb = -1
    /\ ca = chk.array
    /\ pc = "check"
    /\ ranked = {}

NextCheck == CheckStep

SpecCheck == InitCheck /\ [][NextCheck]_vars

(* ---------------- combination_index called on its own ---------------- *)
\* the ascending combinations of size t over the parameters 0..i
RankInputs == SeqSet(combinations(Range(i + 1), t))

InitRank ==
    /\ i \in 0..MaxUniverse
    /\ t \in 1..(i + 1)
    /\ ranked = {}
    /\ pc = "rank"
    /\ parameters = <<>>
    /\ strength = t
    /\ hashseed = 0
    /\ parameters_set = <<>>
    /\ parameters_map = <<>>
    /\ tests = <<>>
    /\ pi = NoPi
    /\ tau = 0
    /\ vc = 1
    /\ vb = -1
    /\ ca = <<>>
    /\ chk = NoCheck

\* one call combination_index(t, i, c); ranked records argument and result
RankCombination ==
    /\ pc = "rank"
    /\ \E c \in RankInputs :
          /\ \A e \in ranked : e.combination /= c
          /\ ranked' = ranked \cup {[combination |-> c, index |-> combination_index(t, i, c)]}
    /\ UNCHANGED <<parameters, strength, hashseed, t, parameters_set, parameters_map,
                   tests, i, pi, tau, vc, vb, ca, pc, chk>>

NextRank == RankCombination

SpecRank == InitRank /\ [][NextRank]_vars

(* ---------------- vocabulary of the properties ---------------- *)
N == Len(parameters)

\* the deduplicated domain of the parameter at position k
Domain(k) == SeqSet(parameters[k])

AllValues == UNION {Domain(k) : k \in 1..N}

\* the strength the generator must use for the requested one
RequiredStrength == IF strength < 1 THEN 1 ELSE IF strength > N THEN N ELSE strength

SubsetsOfSize(S, k) == {c \in SUBSET S : Cardinality(c) = k}

\* the value tuples over the positions c, drawn from the domains
TuplesOver(c) == {f \in [c -> AllValues] : \A k \in c : f[k] \in Domain(k)}

RowCarries(row, c, f) == \A k \in c : row[parameter_names[k]] = f[k]

Returned == pc \in {"done", "check", "checked"}

DomainProduct == Prod([k \in 1..N |-> Cardinality(Domain(k))])

\* C1: for a non-empty mapping the returned array covers every t-tuple,
\* t = max(1, min(strength, N)): for every t positions and every value
\* tuple over their domains some returned row carries the tuple; the
\* generator never fails instead of returning
C1_CoveringGuarantee ==
    /\ pc /= "raised"
    /\ (Returned /\ N >= 1) =>
          \A c \in SubsetsOfSize(1..N, RequiredStrength) :
              \A f \in TuplesOver(c) :
                  \E r \in 1..Len(ca) : RowCarries(ca[r], c, f)

\* a returned pairwise array of four parameters that needed more rows than
\* its seed, with a rotated deduplication order
C1_Witness ==
    /\ pc = "done"
    /\ N = 4
    /\ t = 2
    /\ hashseed = 1
    /\ Len(ca) > Cardinality(Domain(1)) * Cardinality(Domain(2))

\* C2: every returned row has exactly one entry per parameter name and no
\* other, each entry in that parameter's deduplicated domain and none X;
\* the end of vertical extension replaces every X by the index 0 of its
\* domain and changes nothing else, so no row holds an X when decoding
\* starts, and decoding never fails
C2_WellTypedRows ==
    [][/\ pc' /= "raised"
       /\ (pc = "vertical" /\ pc' = "loop") =>
             /\ Len(tests') = Len(tests)
             /\ \A r \in 1..Len(tests) :
                   /\ Len(tests'[r]) = Len(tests[r])
                   /\ \A k \in 1..Len(tests[r]) :
                         tests'[r][k] = IF tests[r][k] = X THEN 0 ELSE tests[r][k]
       /\ (pc' = "loop" /\ i' >= N) =>
             \A r \in 1..Len(tests') : \A k \in 1..Len(tests'[r]) : tests'[r][k] /= X
       /\ Returned' =>
             \A r \in 1..Len(ca') :
                 /\ DOMAIN ca'[r] = {parameter_names[k] : k \in 1..N}
                 /\ \A k \in 1..N :
                       /\ ca'[r][parameter_names[k]] \in Domain(k)
                       /\ ca'[r][parameter_names[k]] /= X]_vars

\* a returned array with rows that vertical extension appended
C2_Witness ==
    /\ pc = "done"
    /\ N >= 3
    /\ t < N
    /\ Len(ca) > Len(first_tests(t, parameters_set))

\* C3: a strength <= 0 gives the array of strength 1 and a strength > N
\* the array of strength N
C3_StrengthClamping ==
    /\ pc /= "raised"
    /\ (Returned /\ N >= 1 /\ strength <= 0) => ca = covering_array(parameters, 1, hashseed)
    /\ (Returned /\ N >= 1 /\ strength > N) => ca = covering_array(parameters, N, hashseed)

\* a returned array for a negative strength that is not the exhaustive one
C3_Witness ==
    /\ pc = "done"
    /\ strength < 0
    /\ N >= 3
    /\ Len(ca) < DomainProduct

\* C4: when the clamped strength is N nothing is extended and the output is
\* the Cartesian product of the domains, each full tuple in exactly one row
C4_ExhaustiveAtFullStrength ==
    (pc /= "call" /\ N >= 1 /\ RequiredStrength = N) =>
        /\ pc \notin {"horizontal", "vertical", "raised"}
        /\ pi = NoPi
        /\ Returned =>
              /\ Len(ca) = DomainProduct
              /\ \A f \in TuplesOver(1..N) :
                    Cardinality({r \in 1..Len(ca) : RowCarries(ca[r], 1..N, f)}) = 1

\* the exhaustive array of three parameters, asked for with too large a strength
C4_Witness ==
    /\ pc = "done"
    /\ N = 3
    /\ strength > N
    /\ Len(ca) = 8

\* the least element of the symmetric difference of two sets of positions
\* of one size lies in the one that combinations yields first
CombinationBefore(c, d) ==
    c /= d /\ (CHOOSE x \in (c \ d) \cup (d \ c) :
                  \A y \in (c \ d) \cup (d \ c) : x <= y) \in c

\* the place where product first yields the value v of the parameter k
FirstPlace(k, v) ==
    CHOOSE j \in 1..Len(parameters[k]) :
        parameters[k][j] = v /\ \A h \in 1..(j - 1) : parameters[k][h] /= v

TupleBefore(c, f, g) ==
    f /= g /\ LET k == CHOOSE x \in {y \in c : f[y] /= g[y]} :
                           \A y \in {z \in c : f[z] /= g[z]} : x <= y
              IN  FirstPlace(k, f[k]) < FirstPlace(k, g[k])

PairCovered(c, f) == \E r \in 1..Len(chk.array) : RowCarries(chk.array[r], c, f)

AllPairsCovered ==
    \A c \in SubsetsOfSize(1..N, chk.strength) : \A f \in TuplesOver(c) : PairCovered(c, f)

\* C5: on a non-empty array check returns True exactly when every pair
\* (t positions, value tuple over their domains) is matched by some row;
\* otherwise it raises CoveringArrayError with the first unmatched pair of
\* the enumeration, having examined exactly the pairs before it
C5_CheckerVerdict ==
    (pc = "checked" /\ chk.array /= <<>>) =>
        /\ chk.result \in {"True", "CoveringArrayError"}
        /\ chk.result = "True" <=> AllPairsCovered
        /\ chk.result = "True" => chk.error = <<>>
        /\ chk.result = "CoveringArrayError" =>
              LET e == chk.error[1]
                  c == SeqSet(e.combination)
                  f == [k \in c |-> e.values[CHOOSE j \in 1..Len(e.combination) :
                                                 e.combination[j] = k]]
              IN  /\ Len(chk.error) = 1
                  /\ Len(e.combination) = chk.strength
                  /\ \A j \in 1..(Len(e.combination) - 1) :
                        e.combination[j] < e.combination[j + 1]
                  /\ c \in SubsetsOfSize(1..N, chk.strength)
                  /\ f \in TuplesOver(c)
                  /\ ~PairCovered(c, f)
                  /\ \A g \in TuplesOver(c) : TupleBefore(c, g, f) => PairCovered(c, g)
                  /\ \A d \in SubsetsOfSize(1..N, chk.strength) :
                        CombinationBefore(d, c) => \A g \in TuplesOver(d) : PairCovered(d, g)
                  /\ check_pairs(parameters, chk.strength)[chk.pos + 1] = e

\* a two-row array that covers some pairs and misses a later one
C5_Witness ==
    /\ pc = "checked"
    /\ chk.result = "CoveringArrayError"
    /\ Len(chk.array) = 2
    /\ chk.strength = 2
    /\ chk.pos >= 2

\* C6 as stated: an empty parameter mapping makes covering_array raise
\* at once and return no array
C6_EmptyMappingRaises ==
    (N = 0 /\ pc /= "call") => pc = "raised"

\* C6 amended: covering_array never raises; for an empty mapping it
\* extends nothing and returns exactly one row, which has no entry
C6_EmptyMappingReturnsOneEmptyRow ==
    /\ pc /= "raised"
    /\ (N = 0 /\ pc /= "call") =>
          /\ t = 1
          /\ pc \notin {"horizontal", "vertical"}
          /\ Returned => (Len(ca) = 1 /\ DOMAIN ca[1] = {})

\* the empty mapping, asked for with a negative strength, has returned
C6_Witness ==
    /\ pc = "done"
    /\ N = 0
    /\ strength < 0
    /\ Len(ca) = 1

FourByThree == [k \in 1..4 |-> AscList(3)]

\* C7: for four parameters of values {0,1,2} the array of strength 2
\* passes the checker with at most 15 rows and the array of strength 3
\* passes it with at most 40 rows
C7_FourByThreeScenarios ==
    (parameters = FourByThree /\ strength \in {2, 3}) =>
        /\ pc /= "raised"
        /\ Returned => Len(ca) <= (IF strength = 2 THEN 15 ELSE 40)
        /\ pc = "checked" => (chk.result = "True" /\ chk.array = ca /\ chk.strength = strength)

\* the checker has passed the array of strength 3
C7_Witness ==
    /\ pc = "checked"
    /\ parameters = FourByThree
    /\ strength = 3
    /\ chk.result = "True"
    /\ chk.pos = 108
    /\ Len(ca) > 27

\* the uncovered tuples of the current pi that the row extended by w covers:
\* the combinations whose bitmap (the one at the combination's place in pi)
\* still has the bit that decodes to the values the extended row carries
Gain(row, w) ==
    Cardinality({k \in 1..Len(pi.combinations) :
        \E b \in pi.bitmap[k] :
            bitmap_index_combination_values(b, pi.combinations[k], parameters_set)
                = combination_values(Append(row, w), pi.combinations[k])})

Score(row, w) == calculate_coverage(t, i, Append(row, w), pi, parameters_set).coverage

ValuesOfActive == SeqSet(parameters_set[i + 1])

\* C8: the value horizontal extension appends to a row has maximal total
\* gain among the values of parameter i and is the last such value in
\* ascending order; the compared score differs from the total gain by the
\* same amount for every value, so it selects the same value
C8_HorizontalChoice ==
    [][pc = "horizontal" =>
          LET row == tests[tau + 1]
              v == tests'[tau + 1][i + 1]
          IN  /\ tau' = tau + 1
              /\ tests'[tau + 1] = Append(row, v)
              /\ v \in ValuesOfActive
              /\ \A w \in ValuesOfActive :
                    /\ Gain(row, w) <= Gain(row, v)
                    /\ w > v => Gain(row, w) < Gain(row, v)
                    /\ Score(row, w) - Score(row, v) = Gain(row, w) - Gain(row, v)]_vars

\* a row is about to be extended, after others, with two values tied at a
\* positive maximal gain and a third value of smaller gain
C8_Witness ==
    /\ pc = "horizontal"
    /\ tau >= 1
    /\ tau < Len(tests)
    /\ \E w1, w2, w3 \in ValuesOfActive :
          /\ w1 < w2
          /\ Gain(tests[tau + 1], w1) = Gain(tests[tau + 1], w2)
          /\ Gain(tests[tau + 1], w1) > 0
          /\ Gain(tests[tau + 1], w3) < Gain(tests[tau + 1], w1)
          /\ \A w \in ValuesOfActive : Gain(tests[tau + 1], w) <= Gain(tests[tau + 1], w1)

\* the value tuple vertical extension handles next, and its combination
NextCombination == pi.combinations[next_tuple(t, i, pi, vc, vb)[1]]

NextValues ==
    bitmap_index_combination_values(next_tuple(t, i, pi, vc, vb)[2], NextCombination,
                                    parameters_set)

ExactRows == {r \in 1..Len(tests) : combination_values(tests[r], NextCombination) = NextValues}

CompatibleRows ==
    {r \in 1..Len(tests) :
        \A k \in 1..Len(NextCombination) :
            tests[r][NextCombination[k] + 1] \in {NextValues[k], X}}

\* C9 as stated: for each uncovered tuple of vertical extension, if any
\* row carries exactly the target values no row is modified and none is
\* appended; only otherwise one compatible row gets the target values in
\* its X slots; a row is appended only when no row is exact or compatible
C9_VerticalFrame ==
    [][(pc = "vertical" /\ next_tuple(t, i, pi, vc, vb) /= <<>>) =>
          /\ ExactRows /= {} => tests' = tests
          /\ (ExactRows = {} /\ CompatibleRows /= {}) =>
                \E r \in CompatibleRows :
                    tests' = [tests EXCEPT ![r] =
                                 set_combination_values(tests[r], NextValues, NextCombination)]
          /\ CompatibleRows = {} =>
                /\ Len(tests') = Len(tests) + 1
                /\ SubSeq(tests', 1, Len(tests)) = tests
                /\ \A k \in 1..(i + 1) :
                      tests'[Len(tests')][k] =
                          IF \E j \in 1..Len(NextCombination) : NextCombination[j] + 1 = k
                          THEN NextValues[CHOOSE j \in 1..Len(NextCombination) :
                                              NextCombination[j] + 1 = k]
                          ELSE X]_vars

\* the widths of the bitmaps of pi
BitmapWidth(k) ==
    Prod([j \in 1..Len(pi.combinations[k]) |->
             Cardinality(Domain(pi.combinations[k][j] + 1))])

\* C10: within one outer iteration pi changes monotonically: a fresh pi has
\* every bit of every bitmap set, and every later step of the iteration
\* leaves each bitmap a subset of what it was, with at most one bit cleared
\* per combination and no bit set
C10_PiMonotone ==
    [][/\ pc = "loop" /\ pc' = "horizontal" =>
             \A k \in 1..Len(pi'.combinations) :
                 /\ pi'.bitmap[k] = 0..(Prod([j \in 1..Len(pi'.combinations[k]) |->
                        Cardinality(Domain(pi'.combinations[k][j] + 1))]) - 1)
                 /\ Len(pi'.bitmap) = Len(pi'.combinations)
       /\ pc \in {"horizontal", "vertical"} =>
             /\ pi'.combinations = pi.combinations
             /\ Len(pi'.bitmap) = Len(pi.bitmap)
             /\ \A k \in 1..Len(pi.bitmap) :
                   /\ pi'.bitmap[k] \subseteq pi.bitmap[k]
                   /\ Cardinality(pi.bitmap[k] \ pi'.bitmap[k]) <= 1]_vars

\* rows were extended and a bitmap has lost several bits but not all
C10_Witness ==
    /\ pc = "horizontal"
    /\ tau >= 2
    /\ \E k \in 1..Len(pi.bitmap) :
          /\ pi.bitmap[k] /= {}
          /\ Cardinality(pi.bitmap[k]) <= BitmapWidth(k) - 2

\* C11: for the pi of the active parameter i, combination_index(t, i, c)
\* is the place of c in pi.combinations (counted from 0): a value in
\* [0, C(i, t-1)), distinct for distinct combinations, so the bitmap read
\* or written at that index is the one of c; pi has one bitmap for each
\* choice of t-1 parameters below i together with i
C11_IndexIsPlaceInPi ==
    pc \in {"horizontal", "vertical"} =>
        /\ Len(pi.combinations) = Cardinality(SubsetsOfSize(0..(i - 1), t - 1))
        /\ Len(pi.bitmap) = Len(pi.combinations)
        /\ \A k \in 1..Len(pi.combinations) :
              /\ combination_index(t, i, pi.combinations[k]) = k - 1
              /\ Len(pi.combinations[k]) = t
              /\ pi.combinations[k][t] = i
              /\ \A j \in 1..(t - 1) : pi.combinations[k][j] < pi.combinations[k][j + 1]
        /\ \A k, h \in 1..Len(pi.combinations) :
              k /= h => /\ pi.combinations[k] /= pi.combinations[h]
                        /\ combination_index(t, i, pi.combinations[k])
                              /= combination_index(t, i, pi.combinations[h])

\* the pi of the fourth parameter at strength 3 has three combinations
C11_Witness ==
    /\ pc = "horizontal"
    /\ t = 3
    /\ i = 3
    /\ Len(pi.combinations) = 3
    /\ tau >= 1

PrefixSet(c) == {c[j] : j \in 1..(Len(c) - 1)}

\* the combinations of pi for the parameter i that were ranked
RankedOfPi == {e \in ranked : e.combination[t] = i}

HorizontalDone == pc = "vertical" /\ vb = -1

\* the number of values of the j-th parameter of the combination c
DomainSizeAt(c, j) == Cardinality(Domain(c[j] + 1))

\* the tuples of value indices over the combination c
IndexTuplesOver(c) ==
    {v \in [1..Len(c) -> 0..Cardinality(AllValues)] : \A j \in 1..Len(c) : v[j] < DomainSizeAt(c, j)}

\* the mixed-radix number of the value tuple v over c, most significant first
RECURSIVE MixedRadix(_, _, _, _)
MixedRadix(c, v, j, acc) ==
    IF j > Len(c) THEN acc
    ELSE MixedRadix(c, v, j + 1, acc * DomainSizeAt(c, j) + v[j])

TestCarries(test, c, v) == \A j \in 1..Len(c) : test[c[j] + 1] = v[j]

\* C13: when horizontal extension for parameter i has processed all rows,
\* for every combination c of pi and every value tuple v over c the bit of
\* v in c's bitmap is clear exactly when some row carries v at c's
\* positions; the tuples vertical extension then handles are the set bits,
\* and each one it has handled is carried by a row
C13_PiRecordsCoverage ==
    /\ HorizontalDone =>
          \A k \in 1..Len(pi.combinations) :
              /\ pi.bitmap[k] \subseteq
                    {MixedRadix(pi.combinations[k], v, 1, 0) : v \in IndexTuplesOver(pi.combinations[k])}
              /\ \A v \in IndexTuplesOver(pi.combinations[k]) :
                    MixedRadix(pi.combinations[k], v, 1, 0) \notin pi.bitmap[k]
                       <=> \E r \in 1..Len(tests) : TestCarries(tests[r], pi.combinations[k], v)
    /\ pc = "vertical" =>
          \A k \in 1..Len(pi.combinations) :
              \A v \in IndexTuplesOver(pi.combinations[k]) :
                  LET b == MixedRadix(pi.combinations[k], v, 1, 0)
                  IN  (b \in pi.bitmap[k] /\ (k < vc \/ (k = vc /\ b <= vb))) =>
                         \E r \in 1..Len(tests) : TestCarries(tests[r], pi.combinations[k], v)

\* horizontal extension of the fourth parameter at strength 3 has covered
\* part of the tuples of every combination and left others to vertical
\* extension
C13_Witness ==
    /\ HorizontalDone
    /\ t = 3
    /\ i = 3
    /\ \A k \in 1..Len(pi.combinations) :
          /\ pi.bitmap[k] /= {}
          /\ \E v \in IndexTuplesOver(pi.combinations[k]) :
                MixedRadix(pi.combinations[k], v, 1, 0) \notin pi.bitmap[k]

\* the ascending combinations of t parameters
AllCombinations == SeqSet(combinations(Range(N), t))

CoveredIn(ts, c, v) ==
    \E r \in 1..Len(ts) : Len(ts[r]) > c[Len(c)] /\ TestCarries(ts[r], c, v)

\* what one step of the generation does to the tests
GenerationStep ==
    pc \in {"loop", "horizontal", "vertical"} =>
          /\ Len(tests') >= Len(tests)
          /\ \A r \in 1..Len(tests) :
                /\ Len(tests'[r]) >= Len(tests[r])
                /\ \A k \in 1..Len(tests[r]) :
                      tests[r][k] /= X => tests'[r][k] = tests[r][k]
          /\ pc = "horizontal" =>
                /\ Len(tests') = Len(tests)
                /\ Len(tests[tau + 1]) = i
                /\ Len(tests'[tau + 1]) = i + 1
                /\ tests'[tau + 1][i + 1] \in 0..(Cardinality(Domain(i + 1)) - 1)
                /\ \A r \in 1..Len(tests) : r /= tau + 1 => tests'[r] = tests[r]
          /\ pc = "vertical" =>
                /\ Len(tests') <= Len(tests) + 1
                /\ \A r \in 1..Len(tests') : Len(tests'[r]) = i + 1
                /\ Cardinality({r \in 1..Len(tests) : tests'[r] /= tests[r]}) <= 1
                   \/ pc' = "loop"
          /\ (pc = "vertical" /\ pc' = "loop") =>
                /\ Len(tests') = Len(tests)
                /\ \A r \in 1..Len(tests') : \A k \in 1..(i + 1) : tests'[r][k] /= X
          /\ \A c \in AllCombinations : \A v \in IndexTuplesOver(c) :
                /\ CoveredIn(tests, c, v) => CoveredIn(tests', c, v)
                /\ (pc' = "loop" /\ c[Len(c)] < i') => CoveredIn(tests', c, v)

\* C14: during generation rows are never removed or reordered and a
\* concrete entry never changes: a horizontal step appends one concrete
\* entry to one row, a vertical step only replaces X entries or appends one
\* row of length i+1; when the iteration for parameter i ends every row
\* has length i+1 and no X; a tuple that some row carries stays carried,
\* and between iterations every t-tuple over the parameters processed so
\* far is carried by a row
C14_RowsOnlyGrow == [][GenerationStep]_vars

\* the second outer iteration has ended with rows that the first one
\* appended and rows that it appended itself
C14_Witness ==
    /\ pc = "loop"
    /\ N = 4
    /\ t = 2
    /\ i = 4
    /\ Len(tests) > 9

====
